---------------------------- MODULE Spec2Model ----------------------------
(***************************************************************************)
(* A model of the reporting / decoding engine of src/reporting/reporter.py *)
(* (Reporter, UASReporter, SelectedDimensionalityReporter).                *)
(*                                                                         *)
(* The module holds several specifications over one set of variables, one  *)
(* per part of the engine:                                                 *)
(*   SpecGate        Reporter.get_embedding_gate over the drop parts       *)
(*   SpecDims        SelectedDimensionalityReporter.compute                *)
(*   SpecPredict     Reporter.predict, consumed to its end                 *)
(*   SpecUndirected  UASReporter.undirected_tree on one sentence           *)
(*   SpecDirected    UASReporter.directed_tree on one sentence             *)
(*   SpecCompute     UASReporter.compute and UASReporter.write             *)
(*   SpecCorrelation CorrelationReporter: construction, compute, write     *)
(*   SpecRead        TFRecordReader.read                                   *)
(*   SpecDepths      DependencyDepthReporter.compute, then the directed    *)
(*                   UASReporter.compute that uses its depths              *)
(* A variable a specification does not use keeps its initial value.        *)
(***************************************************************************)
EXTENDS Integers, Sequences, FiniteSets, TLC

VARIABLES
    network,    \* the probe weight vectors: DistanceProbe[task], DepthProbe[task]
    args,       \* the configuration: probe_threshold, drop_parts, languages
    gs,         \* the walk over the drop parts of one task's gate
    ds,         \* SelectedDimensionalityReporter: tasks, dimension_matrices, position
    pr,         \* one consumption of Reporter.predict: its position and what it did
    ut,         \* one call of UASReporter.undirected_tree
    dt,         \* one call of UASReporter.directed_tree
    uc,         \* one run of UASReporter.compute and write
    cr,         \* one CorrelationReporter: construction, compute, write
    rd,         \* one TFRecordReader and its call of read
    dd          \* DependencyDepthReporter.compute and the directed UAS passes

vars == <<network, args, gs, ds, pr, ut, dt, uc, cr, rd, dd>>

---------------------------------------------------------------------------
(* Bounds of the model *)

\* dimensionality D of a probe's weight vector
EmbDim == 4
\* probe weights are integers in -MaxWeight..MaxWeight
MaxWeight == 1
\* drop_parts ranges over 0 (unset) and 1..MaxParts
MaxParts == 3

\* a task list holds 1..MaxTasks task names
MaxTasks == 2

\* the data pipeline of one language and task yields 0..MaxBatches batches
MaxBatches == 2

\* a sentence has at most MaxLen tokens
MaxLen == 3
\* pairwise distances are whole numbers in 0..MaxDist
MaxDist == 2
\* depths are whole numbers in 0..MaxDepth
MaxDepth == 2

\* args.languages holds 1..MaxLanguages entries
MaxLanguages == 2
\* one run of compute is handed at most MaxSentences sentences
MaxSentences == 3
\* a sentence handed to compute has at most MaxComputeLen tokens
MaxComputeLen == 2
\* the test set of a language holds 1..MaxCorpus sentences
MaxCorpus == 2
\* of at most MaxCorpusLen tokens each
MaxCorpusLen == 1

\* np.inf in a distance matrix, whose other entries are not negative
Inf == -1
\* np.nan in a score matrix, whose other entries are not positive
NaN == 1

\* Python's None, for probe_threshold (report.py: default=None)
None == -1

---------------------------------------------------------------------------
(* Task names.  A name is the sequence of its '_'-separated words; the     *)
(* substring tests 'distance' in task and 'depth' in task are modelled by  *)
(* a search through the words.                                             *)

DEP_DISTANCE == <<"dep", "distance">>
DEP_DEPTH == <<"dep", "depth">>
POS_TAG == <<"pos", "tag">>

DistanceTasks == {DEP_DISTANCE}
DepthTasks == {DEP_DEPTH}
TaskNames == {DEP_DISTANCE, DEP_DEPTH, POS_TAG}

Contains(task, word) == \E i \in 1..Len(task) : task[i] = word

\* Languages.  An entry of args.languages is the sequence of its '+'-joined
\* members, so language.split('+') is the entry itself.
EN == <<"en">>
DE == <<"de">>
EN_DE == <<"en", "de">>

Dims == 1..EmbDim
Weights == (0 - MaxWeight)..MaxWeight
WeightVectors == [Dims -> Weights]
ZeroVector == [d \in Dims |-> 0]
\* probe_threshold, in halves: 0 is the float 0.0, 1 is 0.5, 2 is 1.0, ...
Thresholds == 0..(2 * MaxWeight)
\* Python's truth value of probe_threshold: None and 0.0 are false
Truthy(threshold) == threshold # None /\ threshold # 0

Abs(x) == IF x < 0 THEN 0 - x ELSE x

---------------------------------------------------------------------------
(* Reporter.get_embedding_gate *)

\* np.where(embedding_gate)[-1]: the true indices in increasing order
RECURSIVE WhereFrom(_, _)
WhereFrom(gate, d) ==
    IF d > EmbDim THEN <<>>
    ELSE IF gate[d] = 1 THEN <<d>> \o WhereFrom(gate, d + 1)
    ELSE WhereFrom(gate, d + 1)

Where(gate) == WhereFrom(gate, 1)

\* np.sum(embedding_gate)
RECURSIVE SumFrom(_, _)
SumFrom(gate, d) == IF d > EmbDim THEN 0 ELSE gate[d] + SumFrom(gate, d + 1)

GateSum(gate) == SumFrom(gate, 1)

\* (np.abs(diagonal_probe) > self._probe_threshold).astype(np.float).
\* Weights are whole numbers and a threshold is a number of halves, so that
\* a threshold can lie strictly between 0 and the smallest non-zero weight.
ThresholdGate(diagonal_probe, threshold) ==
    [d \in Dims |-> IF 2 * Abs(diagonal_probe[d]) > threshold THEN 1 ELSE 0]

\* int(dim_num * part_to_drop / self._drop_parts): the operands are not
\* negative, so the truncation is the floor of the quotient
part_start(dim_num, part_to_drop, parts) == (dim_num * part_to_drop) \div parts

part_end_late(dim_num, part_to_drop, parts) ==
    (dim_num * (part_to_drop + 1) + parts - 1) \div parts

part_end(dim_num, part_to_drop, parts) ==
    (dim_num * (part_to_drop + 1)) \div parts

\* np.where(embedding_gate)[-1][part_start:part_end]: a Python slice, which
\* clips to the length of the array
Slice(seq, from, to) ==
    {seq[i] : i \in {k \in 1..Len(seq) : from < k /\ k <= to}}

DropPart(gate, part_to_drop, parts) ==
    LET dim_num == GateSum(gate)
        dims_to_drop == Slice(Where(gate),
                              part_start(dim_num, part_to_drop, parts),
                              part_end(dim_num, part_to_drop, parts))
    IN  [d \in Dims |-> IF d \in dims_to_drop THEN 0 ELSE gate[d]]

\* The outcome of get_embedding_gate(task, part_to_drop): the gate, or the
\* exception the call ends with.  A task name with neither word leaves
\* diagonal_probe unbound; a threshold of None cannot be compared.
get_embedding_gate(task, part_to_drop) ==
    IF ~Contains(task, "distance") /\ ~Contains(task, "depth")
    THEN [error |-> "UnboundLocalError", gate |-> ZeroVector]
    ELSE IF args.probe_threshold = None
    THEN [error |-> "TypeError", gate |-> ZeroVector]
    ELSE LET diagonal_probe == IF Contains(task, "distance")
                               THEN network.DistanceProbe[task]
                               ELSE network.DepthProbe[task]
             embedding_gate == ThresholdGate(diagonal_probe, args.probe_threshold)
         IN  [error |-> "none",
              gate  |-> IF args.drop_parts # 0
                        THEN DropPart(embedding_gate, part_to_drop, args.drop_parts)
                        ELSE embedding_gate]

---------------------------------------------------------------------------
(* SpecGate: the gates of one task, one call per drop part, in the order   *)
(* in which Reporter.predict asks for them (part_to_drop = 0, 1, ...).     *)

\* validation_steps = self._drop_parts or 1
validation_steps == IF args.drop_parts # 0 THEN args.drop_parts ELSE 1

NoDims == [tasks |-> <<>>, dimension_matrices |-> <<>>, pc |-> "new"]
NoGates == [task |-> POS_TAG, part_to_drop |-> 0, gates |-> <<>>, pc |-> "new"]
NoPredict == [task |-> POS_TAG, batches |-> 0, pc |-> "unused"]

NoTree == [sent_len |-> 0, pc |-> "unused"]
NoCompute == [pc |-> "unused"]
NoCorrelation == [pc |-> "unused"]
NoReader == [pc |-> "unused"]
NoDepths == [pc |-> "unused"]
NoNetwork == [DistanceProbe |-> [t \in DistanceTasks |-> ZeroVector],
              DepthProbe    |-> [t \in DepthTasks |-> ZeroVector]]
NoArgs == [probe_threshold |-> None, drop_parts |-> 0, languages |-> <<EN>>]

\* the variables a specification leaves alone
idleGate == <<ds, pr, ut, dt, uc, cr, rd, dd>>
idleDims == <<gs, pr, ut, dt, uc, cr, rd, dd>>
idlePredict == <<gs, ds, ut, dt, uc, cr, rd, dd>>
idleUndirected == <<network, args, gs, ds, pr, dt, uc, cr, rd, dd>>
idleDirected == <<network, args, gs, ds, pr, ut, uc, cr, rd, dd>>
idleCompute == <<network, args, gs, ds, pr, ut, dt, cr, rd, dd>>
idleCorrelation == <<network, gs, ds, pr, ut, dt, uc, rd, dd>>
idleRead == <<network, args, gs, ds, pr, ut, dt, uc, cr, dd>>
idleDepths == <<network, gs, ds, pr, ut, dt, uc, cr, rd>>

InitGate ==
    /\ \E task \in TaskNames, w \in WeightVectors :
          /\ gs = [task |-> task, part_to_drop |-> 0, gates |-> <<>>, pc |-> "call"]
          /\ network = [DistanceProbe |-> [t \in DistanceTasks |->
                                              IF t = task THEN w ELSE ZeroVector],
                        DepthProbe    |-> [t \in DepthTasks |->
                                              IF t = task THEN w ELSE ZeroVector]]
    /\ \E threshold \in Thresholds \cup {None}, parts \in 0..MaxParts :
          args = [probe_threshold |-> threshold, drop_parts |-> parts,
                  languages |-> <<EN>>]
    /\ ds = NoDims
    /\ pr = NoPredict
    /\ ut = NoTree
    /\ dt = NoTree
    /\ uc = NoCompute
    /\ cr = NoCorrelation
    /\ rd = NoReader
    /\ dd = NoDepths

\* one call of get_embedding_gate that returns a gate
GateCall ==
    /\ gs.pc = "call"
    /\ gs.part_to_drop < validation_steps
    /\ LET r == get_embedding_gate(gs.task, gs.part_to_drop)
       IN  /\ r.error = "none"
           /\ gs' = [gs EXCEPT !.gates = Append(@, r.gate),
                               !.part_to_drop = @ + 1]
    /\ UNCHANGED <<network, args, idleGate>>

\* one call of get_embedding_gate that raises
GateRaise ==
    /\ gs.pc = "call"
    /\ gs.part_to_drop < validation_steps
    /\ LET r == get_embedding_gate(gs.task, gs.part_to_drop)
       IN  /\ r.error # "none"
           /\ gs' = [gs EXCEPT !.pc = r.error]
    /\ UNCHANGED <<network, args, idleGate>>

\* the last part has been asked for
GateDone ==
    /\ gs.pc = "call"
    /\ gs.part_to_drop = validation_steps
    /\ gs' = [gs EXCEPT !.pc = "done"]
    /\ UNCHANGED <<network, args, idleGate>>

NextGate == GateCall \/ GateRaise \/ GateDone

SpecGate == InitGate /\ [][NextGate]_vars

\* The dimensions the threshold selects for the task walked, before any part
\* is dropped, and the dimensions a pass has zeroed among them.
TrueSet == {d \in Dims : 2 * Abs((IF Contains(gs.task, "distance")
                                  THEN network.DistanceProbe[gs.task]
                                  ELSE network.DepthProbe[gs.task])[d])
                          > args.probe_threshold}
GateOnes(p) == {d \in Dims : gs.gates[p + 1][d] = 1}
Zeroed(p) == TrueSet \ GateOnes(p)
Rank(d) == Cardinality({e \in TrueSet : e < d})

\* C1: with drop_parts = K >= 1 and T true dimensions, the gate of part p
\* has no 1 outside the true set and zeroes exactly the true indices of rank
\* floor(T*p/K) .. floor(T*(p+1)/K)-1; the zeroed sets of different parts are
\* disjoint, and once all K parts are done their union is the true set, each
\* true index being zeroed in exactly one part.
C1_DropPartsPartition ==
    (args.drop_parts >= 1 /\ gs.pc \in {"call", "done"}) =>
        LET T == Cardinality(TrueSet)
            K == args.drop_parts
            done == 0..(Len(gs.gates) - 1)
        IN  /\ \A p \in done :
                  /\ GateOnes(p) \subseteq TrueSet
                  /\ Zeroed(p) = {d \in TrueSet :
                                     /\ (T * p) \div K <= Rank(d)
                                     /\ Rank(d) < (T * (p + 1)) \div K}
                  /\ \A q \in done : q # p => Zeroed(p) \cap Zeroed(q) = {}
            /\ gs.pc = "done" =>
                  /\ Len(gs.gates) = K
                  /\ UNION {Zeroed(p) : p \in done} = TrueSet
                  /\ \A d \in TrueSet :
                        Cardinality({p \in done : d \in Zeroed(p)}) = 1

\* drop_parts = 2 over a gate with 4 true dimensions: part 0 zeroes the first
\* two true indices, part 1 the last two
C1_Witness ==
    /\ gs.pc = "done"
    /\ args.drop_parts = 2
    /\ TrueSet = {1, 2, 3, 4}
    /\ Zeroed(0) = {1, 2}
    /\ Zeroed(1) = {3, 4}

---------------------------------------------------------------------------
(* SpecDims: SelectedDimensionalityReporter.compute.  report.py builds the *)
(* reporter only when probe_threshold is true and drop_parts is None.      *)

TaskLists == UNION {[1..n -> TaskNames] : n \in 1..MaxTasks}

\* tf.math.reduce_sum(selected_dims[task_idx] * selected_dims[task_jdx])
RECURSIVE ProductSumFrom(_, _, _)
ProductSumFrom(g1, g2, d) ==
    IF d > EmbDim THEN 0 ELSE g1[d] * g2[d] + ProductSumFrom(g1, g2, d + 1)

\* the two assignments that store dims_n
StoreOneWay(matrix, task_idx, task_jdx, dims_n) ==
    [matrix EXCEPT ![task_idx][task_jdx] = dims_n]

StoreOverlap(matrix, task_idx, task_jdx, dims_n) ==
    [matrix EXCEPT ![task_idx][task_jdx] = dims_n, ![task_jdx][task_idx] = dims_n]

\* selected_dims[k], set when the outer loop was at task k
selected_dims(tasks, k) == get_embedding_gate(tasks[k], 0).gate

\* for task_jdx in range(task_idx+1)
RECURSIVE FillRow(_, _, _, _)
FillRow(tasks, task_idx, task_jdx, matrix) ==
    IF task_jdx > task_idx THEN matrix
    ELSE FillRow(tasks, task_idx, task_jdx + 1,
                 StoreOverlap(matrix, task_idx, task_jdx,
                              ProductSumFrom(selected_dims(tasks, task_idx),
                                             selected_dims(tasks, task_jdx), 1)))

\* for task_idx, task in enumerate(self._tasks): the matrix when the loop
\* ends, or when get_embedding_gate raises
RECURSIVE FillTasks(_, _, _)
FillTasks(tasks, task_idx, matrix) ==
    IF task_idx > Len(tasks) THEN [error |-> "none", matrix |-> matrix]
    ELSE IF get_embedding_gate(tasks[task_idx], 0).error # "none"
    THEN [error |-> get_embedding_gate(tasks[task_idx], 0).error, matrix |-> matrix]
    ELSE FillTasks(tasks, task_idx + 1, FillRow(tasks, task_idx, 1, matrix))

\* np.zeros((len(self._tasks), len(self._tasks)), dtype=np.int)
Zeros(n) == [i \in 1..n |-> [j \in 1..n |-> 0]]

LanguageSet(languages) == {languages[i] : i \in 1..Len(languages)}

InitDims ==
    /\ \E tasks \in TaskLists :
          /\ ds = [tasks |-> tasks, dimension_matrices |-> <<>>, pc |-> "new"]
          /\ \E w1 \in WeightVectors, w2 \in WeightVectors :
                network = [DistanceProbe |-> [t \in DistanceTasks |->
                              IF \E i \in 1..Len(tasks) : tasks[i] = t
                              THEN w1 ELSE ZeroVector],
                           DepthProbe |-> [t \in DepthTasks |->
                              IF \E i \in 1..Len(tasks) : tasks[i] = t
                              THEN w2 ELSE ZeroVector]]
    /\ \E threshold \in {t \in Thresholds : Truthy(t)},
          languages \in {<<EN>>, <<EN, DE>>, <<EN_DE>>} :
          args = [probe_threshold |-> threshold, drop_parts |-> 0,
                  languages |-> languages]
    /\ gs = NoGates
    /\ pr = NoPredict
    /\ ut = NoTree
    /\ dt = NoTree
    /\ uc = NoCompute
    /\ cr = NoCorrelation
    /\ rd = NoReader
    /\ dd = NoDepths

\* compute() runs to its end: one matrix per entry of the languages
DimsCompute ==
    /\ ds.pc = "new"
    /\ LET r == FillTasks(ds.tasks, 1, Zeros(Len(ds.tasks)))
       IN  /\ r.error = "none"
           /\ ds' = [ds EXCEPT !.pc = "done",
                               !.dimension_matrices =
                                   [l \in LanguageSet(args.languages) |-> r.matrix]]
    /\ UNCHANGED <<network, args, idleDims>>

\* compute() raises in the first language, whose matrix is left half filled
DimsRaise ==
    /\ ds.pc = "new"
    /\ Len(args.languages) > 0
    /\ LET r == FillTasks(ds.tasks, 1, Zeros(Len(ds.tasks)))
       IN  /\ r.error # "none"
           /\ ds' = [ds EXCEPT !.pc = r.error,
                               !.dimension_matrices =
                                   [l \in {args.languages[1]} |-> r.matrix]]
    /\ UNCHANGED <<network, args, idleDims>>

NextDims == DimsCompute \/ DimsRaise

SpecDims == InitDims /\ [][NextDims]_vars

\* the dimensions the threshold selects for the k-th task of the list
SelectedSet(k) ==
    {d \in Dims : 2 * Abs((IF Contains(ds.tasks[k], "distance")
                           THEN network.DistanceProbe[ds.tasks[k]]
                           ELSE network.DepthProbe[ds.tasks[k]])[d])
                   > args.probe_threshold}

\* C8: after compute(), for every language the task-by-task matrix is
\* symmetric, its entry [a][b] is the number of dimensions selected by both
\* task a's and task b's gate, and its diagonal entry [a][a] is the number
\* of dimensions task a's gate selects.
C8_OverlapMatrix ==
    ds.pc = "done" =>
        /\ DOMAIN ds.dimension_matrices = LanguageSet(args.languages)
        /\ \A l \in DOMAIN ds.dimension_matrices :
             LET M == ds.dimension_matrices[l]
                 n == Len(ds.tasks)
             IN  \A a \in 1..n, b \in 1..n :
                    /\ M[a][b] = M[b][a]
                    /\ M[a][b] = Cardinality(SelectedSet(a) \cap SelectedSet(b))
                    /\ M[a][a] = Cardinality(SelectedSet(a))

\* gate_A = [1,1,0,0], gate_B = [1,0,0,1]: overlap(A,B) = 1, overlap(A,A) = 2,
\* overlap(B,B) = 2
C8_Witness ==
    /\ ds.pc = "done"
    /\ ds.tasks = <<DEP_DISTANCE, DEP_DEPTH>>
    /\ SelectedSet(1) = {1, 2}
    /\ SelectedSet(2) = {1, 4}
    /\ \A l \in LanguageSet(args.languages) :
          /\ ds.dimension_matrices[l][1][2] = 1
          /\ ds.dimension_matrices[l][2][1] = 1
          /\ ds.dimension_matrices[l][1][1] = 2
          /\ ds.dimension_matrices[l][2][2] = 2

---------------------------------------------------------------------------
(* SpecPredict: the generator Reporter.predict(args, language, lang, task) *)
(* consumed by a for loop until it is exhausted or raises.                 *)

\* embedding_gate = None
NoGate == <<>>

\* The body of the batch loop for one batch: the exception it ends with, if
\* any, and the probe calls it made before.
PredictBody(task, part_to_drop) ==
    LET g == IF Truthy(args.probe_threshold)
             THEN get_embedding_gate(task, part_to_drop)
             ELSE [error |-> "none", gate |-> NoGate]
    IN  IF g.error # "none" THEN [error |-> g.error, calls |-> <<>>]
        ELSE IF Contains(task, "distance")
        THEN [error |-> "none",
              calls |-> <<[probe |-> "distance_probe", part |-> part_to_drop,
                           gate |-> g.gate]>>]
        ELSE IF Contains(task, "depth")
        THEN [error |-> "none",
              calls |-> <<[probe |-> "depth_probe", part |-> part_to_drop,
                           gate |-> g.gate]>>]
        ELSE [error |-> "ValueError", calls |-> <<>>]

InitPredict ==
    /\ \E task \in TaskNames, w \in WeightVectors, batches \in 0..MaxBatches :
          /\ pr = [task |-> task, batches |-> batches, pc |-> "new",
                   data_pipe |-> FALSE, part_to_drop |-> 0, batch_idx |-> 0,
                   batches_read |-> 0, probe_calls |-> <<>>, yielded |-> 0]
          /\ network = [DistanceProbe |-> [t \in DistanceTasks |->
                                              IF t = task THEN w ELSE ZeroVector],
                        DepthProbe    |-> [t \in DepthTasks |->
                                              IF t = task THEN w ELSE ZeroVector]]
    /\ \E threshold \in Thresholds \cup {None}, parts \in 0..MaxParts :
          args = [probe_threshold |-> threshold, drop_parts |-> parts,
                  languages |-> <<EN>>]
    /\ gs = NoGates
    /\ ds = NoDims
    /\ ut = NoTree
    /\ dt = NoTree
    /\ uc = NoCompute
    /\ cr = NoCorrelation
    /\ rd = NoReader
    /\ dd = NoDepths

\* data_pipe = Network.data_pipeline(...); validation_steps = ...
PredictBuild ==
    /\ pr.pc = "new"
    /\ pr' = [pr EXCEPT !.pc = "iterating", !.data_pipe = TRUE]
    /\ UNCHANGED <<network, args, idlePredict>>

\* one batch is read, predicted and yielded
PredictBatch ==
    /\ pr.pc = "iterating"
    /\ pr.part_to_drop < validation_steps
    /\ pr.batch_idx < pr.batches
    /\ LET r == PredictBody(pr.task, pr.part_to_drop)
       IN  /\ r.error = "none"
           /\ pr' = [pr EXCEPT !.batches_read = @ + 1,
                               !.probe_calls = @ \o r.calls,
                               !.yielded = @ + 1,
                               !.batch_idx = @ + 1]
    /\ UNCHANGED <<network, args, idlePredict>>

\* one batch is read and the body of the loop raises
PredictRaise ==
    /\ pr.pc = "iterating"
    /\ pr.part_to_drop < validation_steps
    /\ pr.batch_idx < pr.batches
    /\ LET r == PredictBody(pr.task, pr.part_to_drop)
       IN  /\ r.error # "none"
           /\ pr' = [pr EXCEPT !.batches_read = @ + 1,
                               !.probe_calls = @ \o r.calls,
                               !.pc = r.error]
    /\ UNCHANGED <<network, args, idlePredict>>

\* the pipeline is exhausted: the next pass iterates it again from its start
PredictNextPart ==
    /\ pr.pc = "iterating"
    /\ pr.part_to_drop < validation_steps
    /\ pr.batch_idx = pr.batches
    /\ pr' = [pr EXCEPT !.part_to_drop = @ + 1, !.batch_idx = 0]
    /\ UNCHANGED <<network, args, idlePredict>>

\* the last pass is over: the generator is exhausted
PredictDone ==
    /\ pr.pc = "iterating"
    /\ pr.part_to_drop = validation_steps
    /\ pr' = [pr EXCEPT !.pc = "done"]
    /\ UNCHANGED <<network, args, idlePredict>>

NextPredict ==
    PredictBuild \/ PredictBatch \/ PredictRaise \/ PredictNextPart \/ PredictDone

SpecPredict == InitPredict /\ [][NextPredict]_vars

Unrecognized(task) == ~Contains(task, "distance") /\ ~Contains(task, "depth")
PredictEnded == pr.pc \in {"done", "ValueError", "UnboundLocalError", "TypeError"}

\* C9: for a task name with neither 'distance' nor 'depth', consuming
\* predict() ends with the unrecognized-task error (the ValueError), gating
\* on or off, pipeline empty or not.
C9_UnrecognizedTaskFails ==
    (Unrecognized(pr.task) /\ PredictEnded) => pr.pc = "ValueError"

\* C10: when predict() fails for an unrecognized task name, no data pipeline
\* has been built, no batch has been read and no probe call has been made.
C10_ErrorBeforeIO ==
    (Unrecognized(pr.task) /\ pr.pc \in {"ValueError", "UnboundLocalError"}) =>
        /\ ~pr.data_pipe
        /\ pr.batches_read = 0
        /\ pr.probe_calls = <<>>

\* C15: for a recognized task, predict consumed to its end has made
\* validation_steps full passes over the pipeline; when a probe threshold is
\* configured, a threshold of 0 included, the probe call of every batch of
\* pass p got the gate with part p dropped, and with no threshold every
\* probe call got no gate.
C15_GateInEveryPass ==
    (pr.pc = "done" /\ ~Unrecognized(pr.task)) =>
        /\ pr.batches_read = validation_steps * pr.batches
        /\ Len(pr.probe_calls) = validation_steps * pr.batches
        /\ \A k \in 1..Len(pr.probe_calls) :
              /\ pr.probe_calls[k].part = (k - 1) \div pr.batches
              /\ args.probe_threshold # None =>
                    pr.probe_calls[k].gate =
                        get_embedding_gate(pr.task, pr.probe_calls[k].part).gate
              /\ args.probe_threshold = None => pr.probe_calls[k].gate = NoGate

---------------------------------------------------------------------------
(* Sentences: token i of the model is index i-1 of the arrays, so that the *)
(* 1-based token numbers of the decoded trees (col + 1, row + 1, dep) are   *)
(* the model's indices.                                                     *)

Pairs(n) == {p \in (1..n) \X (1..n) : p[1] < p[2]}

\* the symmetric distance matrices with a zero diagonal, by sentence length
DistMatrices ==
    [n \in 0..MaxLen |->
        {[i \in 1..n |-> [j \in 1..n |->
              IF i = j THEN 0 ELSE IF i < j THEN f[<<i, j>>] ELSE f[<<j, i>>]]] :
         f \in [Pairs(n) -> 0..MaxDist]}]

\* the punctuation masks, by sentence length
Masks == [n \in 0..MaxLen |-> [1..n -> BOOLEAN]]

\* the depth vectors, by sentence length
DepthVectors == [n \in 0..MaxLen |-> [1..n -> 0..MaxDepth]]

NonPunct(mask, n) == {i \in 1..n : ~mask[i]}

---------------------------------------------------------------------------
(* SpecUndirected: UASReporter.undirected_tree *)

\* the entry the masking loop leaves at [i, j]
UnmaskedEntry(matrix, mask, i, j) ==
    IF i > j THEN Inf ELSE matrix[i][j]

MaskedEntry(matrix, mask, i, j) ==
    IF mask[i] \/ mask[j] THEN Inf
    ELSE IF i > j THEN Inf
    ELSE matrix[i][j]

MaskDistances(matrix, mask, n) ==
    [i \in 1..n |-> [j \in 1..n |-> MaskedEntry(matrix, mask, i, j)]]

\* The edges scipy reads from a dense matrix: csgraph_from_dense drops the
\* entries that are 0, infinite or NaN.
GraphEdges(matrix, n) ==
    {e \in (1..n) \X (1..n) : matrix[e[1]][e[2]] # Inf /\ matrix[e[1]][e[2]] # 0}

\* scipy's order of the edges: by weight (np.argsort, which keeps the order
\* of equal weights for the few edges of a sentence), then row by row
EdgeBefore(matrix, e, f) ==
    \/ matrix[e[1]][e[2]] < matrix[f[1]][f[2]]
    \/ /\ matrix[e[1]][e[2]] = matrix[f[1]][f[2]]
       /\ (e[1] < f[1] \/ (e[1] = f[1] /\ e[2] < f[2]))

FirstEdge(matrix, edges) ==
    CHOOSE e \in edges : \A f \in edges \ {e} : EdgeBefore(matrix, e, f)

\* Kruskal's algorithm: an edge joins the tree when its ends are in
\* different components
RECURSIVE Kruskal(_, _, _, _)
Kruskal(matrix, edges, component, tree) ==
    IF edges = {} THEN tree
    ELSE LET e == FirstEdge(matrix, edges)
         IN  IF component[e[1]] = component[e[2]]
             THEN Kruskal(matrix, edges \ {e}, component, tree)
             ELSE Kruskal(matrix, edges \ {e},
                          [v \in DOMAIN component |->
                              IF component[v] = component[e[2]]
                              THEN component[e[1]] ELSE component[v]],
                          tree \cup {e})

\* sparse.csgraph.minimum_spanning_tree(matrix).tocoo(): the (row, col)
\* places of the tree's edges
minimum_spanning_tree(matrix, n) ==
    Kruskal(matrix, GraphEdges(matrix, n), [v \in 1..n |-> v], {})

\* set(map(tuple, zip(min_spanning_tree.col + 1, min_spanning_tree.row + 1)))
PredictedEdges(tree) == {<<e[2], e[1]>> : e \in tree}

GoldEdgesRowFirst(tree) == {<<e[1], e[2]>> : e \in tree}

\* set(map(tuple, zip(min_spanning_tree_gold.col + 1, min_spanning_tree_gold.row + 1)))
GoldEdges(tree) == {<<e[2], e[1]>> : e \in tree}

InitUndirected ==
    /\ \E n \in 1..MaxLen :
          \E mask \in Masks[n], p \in DistMatrices[n], g \in DistMatrices[n] :
             ut = [sent_len |-> n, pc |-> "call", sent_punctuation_mask |-> mask,
                   pred_values |-> p, gold_values |-> g,
                   sent_predicted |-> p, sent_gold |-> g,
                   predicted |-> {}, gold |-> {}]
    /\ network = NoNetwork
    /\ args = NoArgs
    /\ gs = NoGates
    /\ ds = NoDims
    /\ pr = NoPredict
    /\ dt = NoTree
    /\ uc = NoCompute
    /\ cr = NoCorrelation
    /\ rd = NoReader
    /\ dd = NoDepths

\* the whole call: the two matrices are masked in place, the two trees are
\* decoded and returned as sets of pairs
UndirectedTree ==
    /\ ut.pc = "call"
    /\ LET n == ut.sent_len
           mask == ut.sent_punctuation_mask
           sp == MaskDistances(ut.sent_predicted, mask, n)
           sg == MaskDistances(ut.sent_gold, mask, n)
       IN  ut' = [ut EXCEPT !.pc = "returned",
                            !.sent_predicted = sp,
                            !.sent_gold = sg,
                            !.predicted = PredictedEdges(minimum_spanning_tree(sp, n)),
                            !.gold = GoldEdges(minimum_spanning_tree(sg, n))]
    /\ UNCHANGED idleUndirected

NextUndirected == UndirectedTree

SpecUndirected == InitUndirected /\ [][NextUndirected]_vars

\* The tokens reachable from the tokens of `seen` over pairs of
\* non-punctuation tokens at a finite, non-zero distance.
RECURSIVE ReachUnder(_, _)
ReachUnder(matrix, seen) ==
    LET V == NonPunct(ut.sent_punctuation_mask, ut.sent_len)
        more == {j \in V : \E i \in seen : matrix[i][j] # 0}
    IN  IF more \subseteq seen THEN seen ELSE ReachUnder(matrix, seen \cup more)

ConnectedUnder(matrix) ==
    LET V == NonPunct(ut.sent_punctuation_mask, ut.sent_len)
    IN  V # {} /\ \A i \in V : ReachUnder(matrix, {i}) = V

Unordered(pairs) == {{e[1], e[2]} : e \in pairs}

\* C7: when the predicted distance matrix equals the gold one, the two
\* decoded edge sets are equal, so every gold edge is a predicted edge; for
\* three non-punctuation tokens with d(1,2) = 1, d(2,3) = 1, d(1,3) = 2 both
\* trees are the edges {1,2} and {2,3}.
C7_EqualInputsEqualTrees ==
    (ut.pc = "returned" /\ ut.pred_values = ut.gold_values) =>
        /\ ut.predicted = ut.gold
        /\ Cardinality(ut.predicted \cap ut.gold) = Cardinality(ut.gold)
        /\ ( /\ ut.sent_len = 3
             /\ NonPunct(ut.sent_punctuation_mask, 3) = {1, 2, 3}
             /\ ut.gold_values[1][2] = 1
             /\ ut.gold_values[2][3] = 1
             /\ ut.gold_values[1][3] = 2 ) =>
                /\ Unordered(ut.predicted) = {{1, 2}, {2, 3}}
                /\ Unordered(ut.gold) = {{1, 2}, {2, 3}}
                /\ Cardinality(ut.gold) = 2

C7_Witness ==
    /\ ut.pc = "returned"
    /\ ut.pred_values = ut.gold_values
    /\ ut.sent_len = 3
    /\ NonPunct(ut.sent_punctuation_mask, 3) = {1, 2, 3}
    /\ ut.gold_values[1][2] = 1
    /\ ut.gold_values[2][3] = 1
    /\ ut.gold_values[1][3] = 2
    /\ ut.predicted = {<<2, 1>>, <<3, 2>>}
    /\ ut.gold = {<<2, 1>>, <<3, 2>>}

---------------------------------------------------------------------------
(* SpecDirected: UASReporter.directed_tree.  The call is modelled in two   *)
(* steps, the predicted tree and then the gold tree, each drawing its      *)
(* depth vector and distance matrix when it first reads them.              *)

\* np.argmin(depths) + 1: the first token of minimum depth
Argmin(depths, n) ==
    CHOOSE i \in 1..n :
        \A j \in 1..n : depths[i] < depths[j] \/ (depths[i] = depths[j] /\ i <= j)

\* the depth test that forbids the arc from dependent i to head j
DepthForbidsShallower(depths, i, j) == depths[i] >= depths[j]

DepthForbidsDeeperOnly(depths, i, j) == depths[i] < depths[j]

DepthForbids(depths, i, j) == depths[i] <= depths[j]

\* The entry [i, j] of the score matrix with the virtual root at index 0
\* (row: dependent, column: head) when the loops and the root assignment
\* are through: row 0 stays NaN; column 0 is 0 for punctuation and for the
\* root token; an arc between tokens is the negated distance unless a
\* punctuation token or the depth test forbids it.
ScoreEntryNoMask(sent, depths, mask, root, i, j) ==
    IF i = 0 THEN NaN
    ELSE IF j = 0 THEN (IF mask[i] \/ i = root THEN 0 ELSE NaN)
    ELSE IF mask[i] THEN NaN
    ELSE IF DepthForbids(depths, i, j) THEN NaN
    ELSE 0 - sent[i][j]

ScoreEntry(sent, depths, mask, root, i, j) ==
    IF i = 0 THEN NaN
    ELSE IF j = 0 THEN (IF mask[i] \/ i = root THEN 0 ELSE NaN)
    ELSE IF mask[i] \/ mask[j] THEN NaN
    ELSE IF DepthForbids(depths, i, j) THEN NaN
    ELSE 0 - sent[i][j]

with_root(sent, depths, mask, n) ==
    LET root == Argmin(depths, n)
    IN  [i \in 0..n |-> [j \in 0..n |-> ScoreEntry(sent, depths, mask, root, i, j)]]

(* chu_liu_edmonds(scores), the decoder of the ufal.chu_liu_edmonds        *)
(* package (TurboParser's), by its contract: a head for every node 1..n    *)
(* such that the arcs form a tree rooted at node 0 of maximum total score, *)
(* NaN entries being no arcs.  A node with no candidate head is attached   *)
(* to node 0, outside the score.  Which of several trees of maximum score  *)
(* is returned is not specified, so every one of them is an outcome.       *)
(* As in the algorithm, every node first takes a best head; when that      *)
(* leaves no cycle the result is a tree of maximum score, and only         *)
(* otherwise are all trees compared.                                       *)

Candidates(scores, i, n) == {j \in 0..n : scores[i][j] # NaN}

BestHeads(scores, i, n) ==
    LET heads == Candidates(scores, i, n)
    IN  IF heads = {} THEN {0}
        ELSE {j \in heads : \A k \in heads : scores[i][k] <= scores[i][j]}

AnyHeads(scores, i, n) ==
    LET heads == Candidates(scores, i, n)
    IN  IF heads = {} THEN {0} ELSE heads

\* the head vectors for nodes 1..i that take a best head at every node
RECURSIVE GreedyHeads(_, _, _)
GreedyHeads(scores, i, n) ==
    IF i = 0 THEN {<<>>}
    ELSE {Append(h, j) : h \in GreedyHeads(scores, i - 1, n),
                         j \in BestHeads(scores, i, n)}

\* the head vectors for nodes 1..i that take a candidate head at every node
RECURSIVE AllHeads(_, _, _)
AllHeads(scores, i, n) ==
    IF i = 0 THEN {<<>>}
    ELSE {Append(h, j) : h \in AllHeads(scores, i - 1, n),
                         j \in AnyHeads(scores, i, n)}

RECURSIVE ReachesRoot(_, _, _)
ReachesRoot(h, i, steps) ==
    IF i = 0 THEN TRUE
    ELSE IF steps = 0 THEN FALSE
    ELSE ReachesRoot(h, h[i], steps - 1)

IsTree(h, n) == \A i \in 1..n : ReachesRoot(h, i, n)

RECURSIVE TreeScoreFrom(_, _, _, _)
TreeScoreFrom(scores, h, i, n) ==
    IF i > n THEN 0
    ELSE (IF Candidates(scores, i, n) = {} THEN 0 ELSE scores[i][h[i]])
         + TreeScoreFrom(scores, h, i + 1, n)

chu_liu_edmonds(scores, n) ==
    LET greedy == {h \in GreedyHeads(scores, n, n) : IsTree(h, n)}
        trees == {h \in AllHeads(scores, n, n) : IsTree(h, n)}
    IN  IF greedy # {} THEN greedy
        ELSE {h \in trees : \A g \in trees :
                 TreeScoreFrom(scores, g, 1, n) <= TreeScoreFrom(scores, h, 1, n)}

\* set([(dep, head) for dep, head, is_punctuation in zip(...) if not is_punctuation])
ArcsOfAllTokens(heads, mask, n) == {<<dep, heads[dep]>> : dep \in 1..n}

Arcs(heads, mask, n) == {<<dep, heads[dep]>> : dep \in NonPunct(mask, n)}

InitDirected ==
    /\ \E n \in 0..MaxLen :
          \E mask \in Masks[n] :
             dt = [sent_len |-> n, pc |-> "call", sent_punctuation_mask |-> mask,
                   predicted_depths |-> <<>>, gold_depths |-> <<>>,
                   predicted_heads |-> <<>>, gold_heads |-> <<>>,
                   predicted |-> {}, gold |-> {}]
    /\ network = NoNetwork
    /\ args = NoArgs
    /\ gs = NoGates
    /\ ds = NoDims
    /\ pr = NoPredict
    /\ ut = NoTree
    /\ uc = NoCompute
    /\ cr = NoCorrelation
    /\ rd = NoReader
    /\ dd = NoDepths

\* np.argmin of an empty depth vector raises ValueError
DirectedRaise ==
    /\ dt.pc = "call"
    /\ dt.sent_len = 0
    /\ dt' = [dt EXCEPT !.pc = "raised"]
    /\ UNCHANGED idleDirected

\* the predicted side: root, score matrix, decoding, arcs
DirectedPredicted ==
    /\ dt.pc = "call"
    /\ dt.sent_len > 0
    /\ LET n == dt.sent_len
           mask == dt.sent_punctuation_mask
       IN  \E depths \in DepthVectors[n], sent \in DistMatrices[n] :
             \E heads \in chu_liu_edmonds(with_root(sent, depths, mask, n), n) :
                dt' = [dt EXCEPT !.pc = "predicted_decoded",
                                 !.predicted_depths = depths,
                                 !.predicted_heads = heads,
                                 !.predicted = Arcs(heads, mask, n)]
    /\ UNCHANGED idleDirected

\* the gold side, and the return of the two arc sets
DirectedGold ==
    /\ dt.pc = "predicted_decoded"
    /\ LET n == dt.sent_len
           mask == dt.sent_punctuation_mask
       IN  \E depths \in DepthVectors[n], sent \in DistMatrices[n] :
             \E heads \in chu_liu_edmonds(with_root(sent, depths, mask, n), n) :
                dt' = [dt EXCEPT !.pc = "returned",
                                 !.gold_depths = depths,
                                 !.gold_heads = heads,
                                 !.gold = Arcs(heads, mask, n)]
    /\ UNCHANGED idleDirected

NextDirected == DirectedRaise \/ DirectedPredicted \/ DirectedGold

SpecDirected == InitDirected /\ [][NextDirected]_vars

\* one arc per non-punctuation token, no other arc
OneArcPerToken(arcs) ==
    /\ \A dep \in NonPunct(dt.sent_punctuation_mask, dt.sent_len) :
          Cardinality({a \in arcs : a[1] = dep}) = 1
    /\ Cardinality(arcs) =
          Cardinality(NonPunct(dt.sent_punctuation_mask, dt.sent_len))

\* C2: a sentence with tokens is always decoded, and the predicted and the
\* gold arc set each hold exactly one (dependent, head) arc per
\* non-punctuation token, whatever the mask and the depths (a punctuation
\* token of minimum depth and ties for the minimum depth included).
C2_OneArcPerToken ==
    /\ dt.pc = "raised" => dt.sent_len = 0
    /\ dt.pc \in {"predicted_decoded", "returned"} => OneArcPerToken(dt.predicted)
    /\ dt.pc = "returned" => OneArcPerToken(dt.gold)

\* returned with a punctuation token as the predicted root, and with two
\* words tied for the minimum gold depth
C2_Witness ==
    /\ dt.pc = "returned"
    /\ dt.sent_len = 3
    /\ dt.sent_punctuation_mask = <<TRUE, FALSE, FALSE>>
    /\ dt.predicted_depths = <<0, 1, 2>>
    /\ dt.gold_depths = <<2, 1, 1>>
    /\ Cardinality(dt.predicted) = 2
    /\ Cardinality(dt.gold) = 2

\* the first token of minimum depth
IsRoot(depths, r) ==
    /\ \A j \in 1..dt.sent_len : depths[r] <= depths[j]
    /\ \A j \in 1..(r - 1) : depths[r] < depths[j]

\* C3: the token of minimum depth has the virtual root as its head, under
\* the predicted depths in the predicted tree and under the gold depths in
\* the gold tree.
C3_RootAttachedToVirtualRoot ==
    /\ dt.pc \in {"predicted_decoded", "returned"} =>
          \A r \in 1..dt.sent_len : IsRoot(dt.predicted_depths, r) =>
             /\ dt.predicted_heads[r] = 0
             /\ ~dt.sent_punctuation_mask[r] => <<r, 0>> \in dt.predicted
    /\ dt.pc = "returned" =>
          \A r \in 1..dt.sent_len : IsRoot(dt.gold_depths, r) =>
             /\ dt.gold_heads[r] = 0
             /\ ~dt.sent_punctuation_mask[r] => <<r, 0>> \in dt.gold

\* a chain under the predicted depths and a star under the gold depths
C3_Witness ==
    /\ dt.pc = "returned"
    /\ dt.sent_len = 3
    /\ dt.sent_punctuation_mask = <<FALSE, FALSE, FALSE>>
    /\ dt.predicted_depths = <<1, 0, 2>>
    /\ dt.gold_depths = <<1, 1, 0>>
    /\ dt.predicted = {<<1, 2>>, <<2, 0>>, <<3, 1>>}
    /\ dt.gold = {<<1, 3>>, <<2, 3>>, <<3, 0>>}

\* C4: no returned arc has a punctuation token as its dependent or as its
\* head; the decoder attaches every punctuation token to the virtual root.
C4_NoPunctuationInArcs ==
    LET mask == dt.sent_punctuation_mask
        clean(arcs) == \A a \in arcs : ~mask[a[1]] /\ (a[2] = 0 \/ ~mask[a[2]])
    IN  /\ dt.pc \in {"predicted_decoded", "returned"} =>
              /\ clean(dt.predicted)
              /\ \A p \in 1..dt.sent_len : mask[p] => dt.predicted_heads[p] = 0
        /\ dt.pc = "returned" =>
              /\ clean(dt.gold)
              /\ \A p \in 1..dt.sent_len : mask[p] => dt.gold_heads[p] = 0

\* a punctuation token that is nearest to, and shallower than, a word
C4_Witness ==
    /\ dt.pc = "returned"
    /\ dt.sent_len = 3
    /\ dt.sent_punctuation_mask = <<FALSE, TRUE, FALSE>>
    /\ dt.predicted_depths = <<0, 1, 2>>
    /\ dt.gold_depths = <<0, 1, 2>>
    /\ dt.predicted = {<<1, 0>>, <<3, 1>>}
    /\ dt.gold = {<<1, 0>>, <<3, 1>>}


\* the arcs between two tokens go from a deeper dependent to a shallower head
ToShallower(arcs, depths) ==
    \A a \in arcs : a[2] # 0 => depths[a[1]] > depths[a[2]]

\* C17: every decoded arc (dependent, head) whose head is a token, not the
\* virtual root, goes from a strictly deeper dependent to a strictly
\* shallower head, under the predicted depths in the predicted tree and
\* under the gold depths in the gold tree; no arc joins tokens of equal
\* depth.
C17_ArcsGoToShallower ==
    /\ dt.pc \in {"predicted_decoded", "returned"} =>
          ToShallower(dt.predicted, dt.predicted_depths)
    /\ dt.pc = "returned" => ToShallower(dt.gold, dt.gold_depths)

\* returned with a chain 3 -> 2 -> 1 in the predicted tree and two arcs to
\* token 2 in the gold tree, where tokens 1 and 3 have the same depth
C17_Witness ==
    /\ dt.pc = "returned"
    /\ dt.sent_len = 3
    /\ dt.predicted_depths = <<0, 1, 2>>
    /\ dt.predicted = {<<1, 0>>, <<2, 1>>, <<3, 2>>}
    /\ dt.gold_depths = <<1, 0, 1>>
    /\ dt.gold = {<<1, 2>>, <<2, 0>>, <<3, 2>>}

---------------------------------------------------------------------------
(* SpecCompute: UASReporter.compute followed by UASReporter.write.         *)
(* predict hands compute the sentences of one language member batch by     *)
(* batch; the model takes them one sentence at a time.                     *)

\* args.languages: 1..MaxLanguages entries, each a list of '+'-members
LanguageLists == UNION {[1..k -> {EN, DE, EN_DE}] : k \in 1..MaxLanguages}

\* for language in self._languages: for lang in language.split('+'):
\* the members in the order compute and write visit them
RECURSIVE MembersFrom(_, _)
MembersFrom(languages, i) ==
    IF i > Len(languages) THEN <<>>
    ELSE languages[i] \o MembersFrom(languages, i + 1)

Members(languages) == MembersFrom(languages, 1)

(* The attachment accumulator UAS of reporting/metrics.py, after the       *)
(* specification: correct += |predicted /\ gold|, total += |gold|, and the *)
(* result is correct/total.  The result is kept as a fraction in lowest    *)
(* terms; what it is for total = 0 is not specified.                       *)
UAS == [correct |-> 0, total |-> 0]

update_state(acc, gold, predicted) ==
    [correct |-> acc.correct + Cardinality(predicted \cap gold),
     total |-> acc.total + Cardinality(gold)]

RECURSIVE GCD(_, _)
GCD(a, b) == IF b = 0 THEN a ELSE GCD(b, a % b)

Undefined == <<0, 0>>

Fraction(a, b) ==
    IF b = 0 THEN Undefined ELSE <<a \div GCD(a, b), b \div GCD(a, b)>>

result(acc) == Fraction(acc.correct, acc.total)

\* the predicted sets directed_tree / undirected_tree can return for a
\* sentence of n tokens with this punctuation mask
DecodedPredicted(depths, n, mask) ==
    IF depths
    THEN UNION {{Arcs(heads, mask, n) :
                    heads \in chu_liu_edmonds(with_root(sent, d, mask, n), n)} :
                d \in DepthVectors[n], sent \in DistMatrices[n]}
    ELSE {PredictedEdges(minimum_spanning_tree(MaskDistances(sent, mask, n), n)) :
             sent \in DistMatrices[n]}

\* the gold sets they can return
DecodedGold(depths, n, mask) ==
    IF depths
    THEN UNION {{Arcs(heads, mask, n) :
                    heads \in chu_liu_edmonds(with_root(sent, d, mask, n), n)} :
                d \in DepthVectors[n], sent \in DistMatrices[n]}
    ELSE {GoldEdges(minimum_spanning_tree(MaskDistances(sent, mask, n), n)) :
             sent \in DistMatrices[n]}

\* self.uas[lang].update_state(gold, predicted)
UpdateSwapped(uas, lang, predicted, gold) ==
    [uas EXCEPT ![lang] = update_state(uas[lang], predicted, gold)]

Update(uas, lang, predicted, gold) ==
    [uas EXCEPT ![lang] = update_state(uas[lang], gold, predicted)]

\* self.uas[lang] = UAS()
KeepAccumulator(uas, lang) == uas @@ (lang :> UAS)

NewAccumulator(uas, lang) == (lang :> UAS) @@ uas

\* a run of compute and write starts with an empty self.uas
InitCompute ==
    /\ \E languages \in LanguageLists, depths \in BOOLEAN :
          /\ args = [NoArgs EXCEPT !.languages = languages]
          /\ uc = [depths |-> depths, pc |-> "loop",
                   visit |-> 0, uas |-> <<>>, sentences |-> 0,
                   fed |-> [l \in {"en", "de"} |-> <<>>],
                   visits |-> [l \in {"en", "de"} |-> 0],
                   since |-> [l \in {"en", "de"} |-> 0],
                   files |-> <<>>]
    /\ network = NoNetwork
    /\ gs = NoGates
    /\ ds = NoDims
    /\ pr = NoPredict
    /\ ut = NoTree
    /\ dt = NoTree
    /\ cr = NoCorrelation
    /\ rd = NoReader
    /\ dd = NoDepths

\* the next member: self.uas[lang] = UAS(), then predict is started
ComputeMember ==
    /\ uc.pc = "loop"
    /\ uc.visit < Len(Members(args.languages))
    /\ LET lang == Members(args.languages)[uc.visit + 1]
       IN  uc' = [uc EXCEPT !.pc = "predict",
                            !.visit = uc.visit + 1,
                            !.uas = NewAccumulator(uc.uas, lang),
                            !.visits[lang] = uc.visits[lang] + 1,
                            !.since[lang] = Len(uc.fed[lang])]
    /\ UNCHANGED idleCompute

\* one sentence of the member: it is decoded and the accumulator updated
\* (a sentence of length 0 in undirected mode gives two empty edge sets)
ComputeSentence ==
    /\ uc.pc = "predict"
    /\ uc.sentences < MaxSentences
    /\ LET lang == Members(args.languages)[uc.visit]
       IN  \E n \in (IF uc.depths THEN 1 ELSE 0)..MaxComputeLen :
             \E mask \in Masks[n] :
                LET P == DecodedPredicted(uc.depths, n, mask)
                    G == DecodedGold(uc.depths, n, mask)
                IN  \E predicted \in P, gold \in G :
                       uc' = [uc EXCEPT
                                !.uas = Update(uc.uas, lang, predicted, gold),
                                !.sentences = uc.sentences + 1,
                                !.fed[lang] = Append(uc.fed[lang],
                                                     [predicted |-> predicted,
                                                      gold |-> gold])]
    /\ UNCHANGED idleCompute

\* a sentence of length 0 in directed mode: its stored depth vectors are
\* empty and np.argmin raises ValueError in directed_tree, which nothing
\* catches
ComputeRaise ==
    /\ uc.pc = "predict"
    /\ uc.sentences < MaxSentences
    /\ uc.depths
    /\ uc' = [uc EXCEPT !.pc = "ValueError",
                        !.sentences = uc.sentences + 1]
    /\ UNCHANGED idleCompute

\* predict is exhausted for the member
ComputeExhausted ==
    /\ uc.pc = "predict"
    /\ uc' = [uc EXCEPT !.pc = "loop"]
    /\ UNCHANGED idleCompute

\* the loops are through: compute returns
ComputeReturn ==
    /\ uc.pc = "loop"
    /\ uc.visit = Len(Members(args.languages))
    /\ uc' = [uc EXCEPT !.pc = "computed"]
    /\ UNCHANGED idleCompute

\* write: one file per member, holding str(self.uas[lang].result())
Write ==
    /\ uc.pc = "computed"
    /\ uc' = [uc EXCEPT !.pc = "written",
                        !.files = [lang \in DOMAIN uc.uas |-> result(uc.uas[lang])]]
    /\ UNCHANGED idleCompute

NextCompute ==
    \/ ComputeMember
    \/ ComputeSentence
    \/ ComputeRaise
    \/ ComputeExhausted
    \/ ComputeReturn
    \/ Write

SpecCompute == InitCompute /\ [][NextCompute]_vars

RECURSIVE SumCorrect(_, _)
SumCorrect(log, i) ==
    IF i > Len(log) THEN 0
    ELSE Cardinality(log[i].predicted \cap log[i].gold) + SumCorrect(log, i + 1)

RECURSIVE SumGold(_, _)
SumGold(log, i) ==
    IF i > Len(log) THEN 0
    ELSE Cardinality(log[i].gold) + SumGold(log, i + 1)

AllEqual(log) == \A i \in 1..Len(log) : log[i].predicted = log[i].gold

AllDisjoint(log) ==
    \A i \in 1..Len(log) :
        /\ log[i].predicted \cap log[i].gold = {}
        /\ Cardinality(log[i].predicted) = Cardinality(log[i].gold)

\* C6: for a member that compute visited once and whose sentences hold a
\* gold arc, the value written is (sum over its sentences of
\* |predicted /\ gold|) / (sum over its sentences of |gold|); it is 1 when
\* predicted equals gold in every sentence and 0 when the two sets of every
\* sentence are disjoint and of equal size.
C6_RatioOfSums ==
    uc.pc = "written" =>
        \A lang \in DOMAIN uc.files :
            (uc.visits[lang] = 1 /\ SumGold(uc.fed[lang], 1) > 0) =>
                /\ uc.files[lang] =
                      Fraction(SumCorrect(uc.fed[lang], 1), SumGold(uc.fed[lang], 1))
                /\ AllEqual(uc.fed[lang]) => uc.files[lang] = <<1, 1>>
                /\ AllDisjoint(uc.fed[lang]) => uc.files[lang] = <<0, 1>>

\* two sentences of "en" with one of two gold arcs predicted in each, and
\* "de" with a sentence whose predicted tree is the gold tree
C6_Witness ==
    /\ uc.pc = "written"
    /\ args.languages = <<EN_DE>>
    /\ uc.depths
    /\ Len(uc.fed["en"]) = 2
    /\ \A i \in 1..2 :
          /\ Cardinality(uc.fed["en"][i].gold) = 2
          /\ Cardinality(uc.fed["en"][i].predicted \cap uc.fed["en"][i].gold) = 1
    /\ uc.files["en"] = <<1, 2>>
    /\ Len(uc.fed["de"]) = 1
    /\ uc.fed["de"][1].predicted = uc.fed["de"][1].gold
    /\ uc.files["de"] = <<1, 1>>

\* the sentences of the member's last visit
LastVisit(lang) == SubSeq(uc.fed[lang], uc.since[lang] + 1, Len(uc.fed[lang]))

\* C18: for a member that occurs in more than one entry of args.languages
\* the value written is the ratio over the sentences of its last visit
\* only: the accumulator is created anew at every visit.
C18_LastVisitOnly ==
    uc.pc = "written" =>
        \A lang \in DOMAIN uc.files :
            uc.visits[lang] > 1 =>
                uc.files[lang] =
                    Fraction(SumCorrect(LastVisit(lang), 1), SumGold(LastVisit(lang), 1))

\* "en" is visited for 'en' and again for 'en+de'; the sentence of the
\* first visit is predicted right, the one of the second visit is not
C18_Witness ==
    /\ uc.pc = "written"
    /\ args.languages = <<EN, EN_DE>>
    /\ uc.visits["en"] = 2
    /\ Len(uc.fed["en"]) = 2
    /\ uc.since["en"] = 1
    /\ uc.fed["en"][1].gold # {}
    /\ uc.fed["en"][1].predicted = uc.fed["en"][1].gold
    /\ uc.fed["en"][2].gold # {}
    /\ uc.fed["en"][2].predicted \cap uc.fed["en"][2].gold = {}
    /\ uc.files["en"] = <<0, 1>>

\* C13: compute does not abort on a sentence of length 0, in undirected
\* and in directed mode alike.
C13_EmptySentenceSkipped == uc.pc # "ValueError"

---------------------------------------------------------------------------
(* SpecCorrelation: CorrelationReporter.__init__, compute and write.       *)
(* args.correlation is a string, kept as its sequence of characters.       *)

SPEARMAN == <<"s", "p", "e", "a", "r", "m", "a", "n">>
PEARSON == <<"p", "e", "a", "r", "s", "o", "n">>
KENDALL == <<"k", "e", "n", "d", "a", "l", "l">>

\* the values of args.correlation the model draws from
CorrelationKinds ==
    {SPEARMAN, PEARSON, KENDALL,
     <<"S", "p", "e", "a", "r", "m", "a", "n">>,
     <<"P", "E", "A", "R", "S", "O", "N">>,
     <<"K", "e", "n", "d", "a", "l", "l">>,
     <<"c", "o", "s", "i", "n", "e">>,
     <<"S", "p", "e", "a", "r">>,
     <<>>}

\* str.lower() on one character
LowerChar(c) ==
    CASE c = "S" -> "s" [] c = "P" -> "p" [] c = "E" -> "e" [] c = "A" -> "a"
      [] c = "R" -> "r" [] c = "O" -> "o" [] c = "N" -> "n" [] c = "K" -> "k"
      [] OTHER -> c

\* args.correlation.lower()
lower(str) == [i \in 1..Len(str) |-> LowerChar(str[i])]

\* The if / elif chain of the constructor: the class it stores, or the
\* TypeError Python raises for `raise` of a str (exceptions must derive from
\* BaseException).
correlation_metric_default(correlation) ==
    IF lower(correlation) = PEARSON THEN "Pearson"
    ELSE IF lower(correlation) = KENDALL THEN "Kendall"
    ELSE "Spearman"

correlation_metric(correlation) ==
    IF lower(correlation) = SPEARMAN THEN "Spearman"
    ELSE IF lower(correlation) = PEARSON THEN "Pearson"
    ELSE IF lower(correlation) = KENDALL THEN "Kendall"
    ELSE "TypeError"

\* self._tasks, in the order its iteration gives
CorrelationTasks ==
    {<<DEP_DISTANCE>>, <<DEP_DEPTH>>, <<DEP_DISTANCE, DEP_DEPTH>>,
     <<DEP_DEPTH, DEP_DISTANCE>>}

\* for language ...: for lang in language.split('+'): for task in self._tasks:
\* the (lang, task) pairs in the order compute and write visit them
RECURSIVE PairsFrom(_, _, _, _)
PairsFrom(members, tasks, i, j) ==
    IF i > Len(members) THEN <<>>
    ELSE IF j > Len(tasks) THEN PairsFrom(members, tasks, i + 1, 1)
    ELSE <<(<<members[i], tasks[j]>>)>> \o PairsFrom(members, tasks, i, j + 1)

LangTaskPairs(languages, tasks) == PairsFrom(Members(languages), tasks, 1, 1)

\* a Python class object, and an instance with the triples it was fed
ClassObject(name) == [kind |-> "class", of |-> name]
InstanceObject(name, triples) == [kind |-> "instance", of |-> name, fed |-> triples]

\* self.correlation_d[lang][task] = self.correlation_metric
StoreMetric(correlation_d, pair, metric) ==
    (pair :> ClassObject(metric)) @@ correlation_d

InitCorrelation ==
    /\ \E languages \in LanguageLists :
          args = [NoArgs EXCEPT !.languages = languages]
    /\ \E correlation \in CorrelationKinds, tasks \in CorrelationTasks :
          cr = [correlation |-> correlation, tasks |-> tasks, pc |-> "new",
                correlation_metric |-> "unset", correlation_d |-> <<>>,
                visit |-> 0, batches |-> 0, predict_calls |-> 0,
                produced |-> <<>>, dropped |-> 0, files |-> {}]
    /\ network = NoNetwork
    /\ gs = NoGates
    /\ ds = NoDims
    /\ pr = NoPredict
    /\ ut = NoTree
    /\ dt = NoTree
    /\ uc = NoCompute
    /\ rd = NoReader
    /\ dd = NoDepths

\* __init__ with a known kind
CorrelationConstruct ==
    /\ cr.pc = "new"
    /\ correlation_metric(cr.correlation) # "TypeError"
    /\ cr' = [cr EXCEPT !.pc = "constructed",
                        !.correlation_metric = correlation_metric(cr.correlation)]
    /\ UNCHANGED <<args, idleCorrelation>>

\* __init__ with any other kind: the raise statement fails
CorrelationConstructRaise ==
    /\ cr.pc = "new"
    /\ correlation_metric(cr.correlation) = "TypeError"
    /\ cr' = [cr EXCEPT !.pc = "init_TypeError"]
    /\ UNCHANGED <<args, idleCorrelation>>

\* compute, the next (lang, task): the metric is stored and predict started
CorrelationPair ==
    /\ cr.pc \in {"constructed", "loop"}
    /\ cr.visit < Len(LangTaskPairs(args.languages, cr.tasks))
    /\ LET pair == LangTaskPairs(args.languages, cr.tasks)[cr.visit + 1]
       IN  cr' = [cr EXCEPT !.pc = "predict",
                            !.visit = cr.visit + 1,
                            !.batches = 0,
                            !.predict_calls = cr.predict_calls + 1,
                            !.correlation_d =
                                StoreMetric(cr.correlation_d, pair, cr.correlation_metric),
                            !.produced = (pair :> <<>>) @@ cr.produced]
    /\ UNCHANGED <<args, idleCorrelation>>

\* One batch: predict yields (gold, predicted, mask) and compute calls what
\* is stored for the pair with it.  What is stored is the class, so the
\* call constructs an instance, which nothing keeps.
CorrelationCallDropped ==
    /\ cr.pc = "predict"
    /\ cr.batches < MaxBatches
    /\ LET pair == LangTaskPairs(args.languages, cr.tasks)[cr.visit]
       IN  cr' = [cr EXCEPT !.batches = cr.batches + 1,
                            !.produced[pair] =
                                Append(cr.produced[pair], <<pair, cr.batches + 1>>),
                            !.dropped = cr.dropped + 1]
    /\ UNCHANGED <<args, idleCorrelation>>

\* ... or the constructor of the metric rejects the three arguments
CorrelationCallRaise ==
    /\ cr.pc = "predict"
    /\ cr.batches < MaxBatches
    /\ LET pair == LangTaskPairs(args.languages, cr.tasks)[cr.visit]
       IN  cr' = [cr EXCEPT !.pc = "compute_TypeError",
                            !.batches = cr.batches + 1,
                            !.produced[pair] =
                                Append(cr.produced[pair], <<pair, cr.batches + 1>>)]
    /\ UNCHANGED <<args, idleCorrelation>>

\* predict is exhausted for the pair
CorrelationExhausted ==
    /\ cr.pc = "predict"
    /\ cr' = [cr EXCEPT !.pc = "loop"]
    /\ UNCHANGED <<args, idleCorrelation>>

\* the loops are through: compute returns
CorrelationReturn ==
    /\ cr.pc = "loop"
    /\ cr.visit = Len(LangTaskPairs(args.languages, cr.tasks))
    /\ cr' = [cr EXCEPT !.pc = "computed"]
    /\ UNCHANGED <<args, idleCorrelation>>

\* write: for the first pair the file prefix + 'spearman' is opened, then
\* .result() is called on what is stored for the pair; on a class it is a
\* call without self, a TypeError, and nothing else is written.
CorrelationWrite ==
    /\ cr.pc = "computed"
    /\ LET pair == LangTaskPairs(args.languages, cr.tasks)[1]
       IN  IF cr.correlation_d[pair].kind = "class"
           THEN cr' = [cr EXCEPT !.pc = "write_TypeError",
                                 !.files = {<<pair, "spearman">>}]
           ELSE cr' = [cr EXCEPT !.pc = "written",
                                 !.files =
                                    {<<q, "spearman">> : q \in DOMAIN cr.correlation_d}
                                    \cup {<<q, "spearman_mean">> :
                                             q \in DOMAIN cr.correlation_d}]
    /\ UNCHANGED <<args, idleCorrelation>>

NextCorrelation ==
    \/ CorrelationConstruct
    \/ CorrelationConstructRaise
    \/ CorrelationPair
    \/ CorrelationCallDropped
    \/ CorrelationCallRaise
    \/ CorrelationExhausted
    \/ CorrelationReturn
    \/ CorrelationWrite

SpecCorrelation == InitCorrelation /\ [][NextCorrelation]_vars

\* the (lang, task) pairs requested of the reporter
Requested == {LangTaskPairs(args.languages, cr.tasks)[i] :
                 i \in 1..Len(LangTaskPairs(args.languages, cr.tasks))}

\* C11: when compute has returned, every requested (lang, task) pair has an
\* accumulator instance whose state is exactly the triples predict
\* produced for the pair.
C11_OneAccumulatorPerPair ==
    cr.pc = "computed" =>
        \A pair \in Requested :
            /\ pair \in DOMAIN cr.correlation_d
            /\ cr.correlation_d[pair].kind = "instance"
            /\ cr.correlation_d[pair].fed = cr.produced[pair]

KnownKinds == {SPEARMAN, PEARSON, KENDALL}

\* C12: a reporter whose correlation kind is, in lower case, none of
\* spearman, pearson, kendall fails in its constructor, with no metric
\* stored, no predict call and no file; a reporter of a known kind, in any
\* case, is constructed with the class of that kind.
C12_UnknownKindFailsAtConstruction ==
    /\ (cr.pc \notin {"unused", "new"} /\ lower(cr.correlation) \notin KnownKinds) =>
          /\ cr.pc = "init_TypeError"
          /\ cr.correlation_metric = "unset"
          /\ cr.correlation_d = <<>>
          /\ cr.predict_calls = 0
          /\ cr.files = {}
    /\ (cr.pc \notin {"unused", "new"} /\ lower(cr.correlation) \in KnownKinds) =>
          /\ cr.pc # "init_TypeError"
          /\ lower(cr.correlation) = SPEARMAN => cr.correlation_metric = "Spearman"
          /\ lower(cr.correlation) = PEARSON => cr.correlation_metric = "Pearson"
          /\ lower(cr.correlation) = KENDALL => cr.correlation_metric = "Kendall"

\* the constructor has failed for the kind 'cosine'
C12_Witness ==
    /\ cr.pc = "init_TypeError"
    /\ cr.correlation = <<"c", "o", "s", "i", "n", "e">>

\* C16: when write has run, the mean file of every requested pair exists
\* (holding the mean over the buckets whose value is not NaN) and write
\* has not raised.
C16_MeanOverDefinedBuckets ==
    cr.pc \in {"written", "write_TypeError"} =>
        /\ cr.pc = "written"
        /\ \A pair \in Requested : <<pair, "spearman_mean">> \in cr.files

---------------------------------------------------------------------------
(* SpecRead: TFRecordReader.read(read_tasks, read_languages), on a reader  *)
(* whose attributes were filled from data_map.json.                        *)

\* TFRecordWrapper.modes
modes == <<"train", "dev", "test">>

LanguageNames == {"en", "de"}

\* The entry map_tfrecord[mode][model_name][lang][task] of a reader: a file
\* name; None, as TFRecordWrapper.__init__ sets it and a writer that never
\* wrote the combination leaves it in data_map.json; or no such key in the
\* file at all ("file", "None", "no key").  The maps the model draws hold a
\* file for every combination but at most one.
TFRecordMaps ==
    {[e \in (1..Len(modes)) \X LanguageNames \X TaskNames |-> "file"]}
    \cup {[e \in (1..Len(modes)) \X LanguageNames \X TaskNames |->
              IF e = hole THEN entry ELSE "file"] :
          hole \in (1..Len(modes)) \X LanguageNames \X {DEP_DISTANCE, DEP_DEPTH},
          entry \in {"None", "no key"}}

\* read_tasks and read_languages as report.py passes them
ReadTaskLists ==
    {<<DEP_DISTANCE>>, <<DEP_DEPTH>>, <<DEP_DISTANCE, DEP_DEPTH>>,
     <<DEP_DEPTH, DEP_DISTANCE>>}

NoError == [type |-> "none", lists |-> "none"]

(* The loops of read for one mode, from member i and task j on (j = 0: the *)
(* member's own check comes first).  The result is the error raised, or    *)
(* NoError, and the data_set built so far.                                 *)
RECURSIVE ReadFrom(_, _, _, _, _, _)
ReadFrom(reader, mode, members, read_tasks, i, j) ==
    IF i > Len(members) THEN [error |-> NoError, data_set |-> {}]
    ELSE IF j = 0
    THEN IF members[i] \notin reader.languages
         THEN [error |-> [type |-> "ValueError", lists |-> "languages"],
               data_set |-> {}]
         ELSE ReadFrom(reader, mode, members, read_tasks, i, 1)
    ELSE IF j > Len(read_tasks)
    THEN ReadFrom(reader, mode, members, read_tasks, i + 1, 0)
    ELSE IF read_tasks[j] \notin reader.tasks
    THEN [error |-> [type |-> "ValueError", lists |-> "tasks"], data_set |-> {}]
    ELSE LET entry == reader.map_tfrecord[<<mode, members[i], read_tasks[j]>>]
             rest == ReadFrom(reader, mode, members, read_tasks, i, j + 1)
         IN  IF entry = "None"
             THEN [error |-> [type |-> "TypeError", lists |-> "none"],
                   data_set |-> {}]
             ELSE IF entry = "no key"
             THEN [error |-> [type |-> "KeyError", lists |-> "none"],
                   data_set |-> {}]
             ELSE [error |-> rest.error,
                   data_set |-> IF rest.error = NoError
                                THEN rest.data_set \cup {<<members[i], read_tasks[j]>>}
                                ELSE {}]

ReadMode(reader, mode, read_tasks, read_languages) ==
    ReadFrom(reader, mode, Members(read_languages), read_tasks, 1, 0)

InitRead ==
    /\ \E model_known \in BOOLEAN, languages \in {{"en"}, {"en", "de"}},
          tasks \in {{DEP_DISTANCE}, {DEP_DISTANCE, DEP_DEPTH}},
          map \in TFRecordMaps,
          read_tasks \in ReadTaskLists, read_languages \in LanguageLists :
          rd = [model_known |-> model_known, languages |-> languages,
                tasks |-> tasks, map_tfrecord |-> map,
                read_tasks |-> read_tasks, read_languages |-> read_languages,
                pc |-> "call", mode |-> 0, error |-> NoError,
                data |-> [m \in 1..Len(modes) |-> {}]]
    /\ network = NoNetwork
    /\ args = NoArgs
    /\ gs = NoGates
    /\ ds = NoDims
    /\ pr = NoPredict
    /\ ut = NoTree
    /\ dt = NoTree
    /\ uc = NoCompute
    /\ cr = NoCorrelation
    /\ dd = NoDepths

\* if self.model_name not in self.models: raise ValueError(... supported models ...)
ReadModelRaise ==
    /\ rd.pc = "call"
    /\ ~rd.model_known
    /\ rd' = [rd EXCEPT !.pc = "raised",
                        !.error = [type |-> "ValueError", lists |-> "models"]]
    /\ UNCHANGED idleRead

\* the body of `for mode in self.modes` for the next mode, ended by an
\* error
ReadModeRaise ==
    /\ rd.pc \in {"call", "modes"}
    /\ rd.model_known
    /\ rd.mode < Len(modes)
    /\ LET out == ReadMode(rd, rd.mode + 1, rd.read_tasks, rd.read_languages)
       IN  /\ out.error # NoError
           /\ rd' = [rd EXCEPT !.pc = "raised",
                               !.mode = rd.mode + 1,
                               !.error = out.error]
    /\ UNCHANGED idleRead

\* ... or ended by self.__setattr__(mode, data_set)
ReadModeSet ==
    /\ rd.pc \in {"call", "modes"}
    /\ rd.model_known
    /\ rd.mode < Len(modes)
    /\ LET out == ReadMode(rd, rd.mode + 1, rd.read_tasks, rd.read_languages)
       IN  /\ out.error = NoError
           /\ rd' = [rd EXCEPT !.pc = "modes",
                               !.mode = rd.mode + 1,
                               !.data[rd.mode + 1] = out.data_set]
    /\ UNCHANGED idleRead

\* all modes are read
ReadReturn ==
    /\ rd.pc = "modes"
    /\ rd.mode = Len(modes)
    /\ rd' = [rd EXCEPT !.pc = "returned"]
    /\ UNCHANGED idleRead

NextRead == ReadModelRaise \/ ReadModeRaise \/ ReadModeSet \/ ReadReturn

SpecRead == InitRead /\ [][NextRead]_vars

RequestedOfReader ==
    {<<Members(rd.read_languages)[i], rd.read_tasks[j]>> :
        i \in 1..Len(Members(rd.read_languages)), j \in 1..Len(rd.read_tasks)}

\* data is missing for a requested language or task: the model, the
\* language or the task is not known, or a requested combination has no
\* record file in some mode
DataMissing ==
    \/ ~rd.model_known
    \/ \E q \in RequestedOfReader :
          \/ q[1] \notin rd.languages
          \/ q[2] \notin rd.tasks
          \/ \E m \in 1..Len(modes) : rd.map_tfrecord[<<m, q[1], q[2]>>] # "file"

\* C14: when data is missing for a requested language or task, read ends
\* with a ValueError whose message lists the available alternatives.
C14_MissingDataListsAlternatives ==
    (rd.pc \in {"raised", "returned"} /\ DataMissing) =>
        /\ rd.pc = "raised"
        /\ rd.error.type = "ValueError"
        /\ rd.error.lists \in {"models", "languages", "tasks"}

---------------------------------------------------------------------------
(* SpecDepths: DependencyDepthReporter.compute, whose result report.py     *)
(* hands to the directed UASReporter, and the passes of that reporter's    *)
(* compute.  The test set is a sequence of sentences, each with its gold   *)
(* depth vector; its corpus indices are 1..Len.  Every member of           *)
(* args.languages has a test set of this shape.  What directed_tree and    *)
(* the accumulator do with a sentence is in SpecDirected and SpecCompute;  *)
(* here the step of a sentence keeps what directed_tree read.              *)

Corpora ==
    UNION {[1..k -> UNION {DepthVectors[n] : n \in 1..MaxCorpusLen}] :
              k \in 1..MaxCorpus}

\* results[lang][conll_idx] = {'predicted': sent_predicted, 'gold': sent_gold}
\* (part and writes are not in the code: the pass that wrote the entry and
\* how often the key was written)
KeepFirstDepths(results, key, sent_predicted, sent_gold, part) ==
    IF key \in DOMAIN results
    THEN [results EXCEPT ![key].writes = results[key].writes + 1]
    ELSE (key :> [predicted |-> sent_predicted, gold |-> sent_gold,
                  part |-> part, writes |-> 1]) @@ results

StoreDepths(results, key, sent_predicted, sent_gold, part) ==
    (key :> [predicted |-> sent_predicted, gold |-> sent_gold, part |-> part,
             writes |-> IF key \in DOMAIN results
                        THEN results[key].writes + 1 ELSE 1]) @@ results

InitDepths ==
    /\ \E languages \in {<<EN>>, <<EN_DE>>}, parts \in 0..MaxParts,
          threshold \in {None, 1} :
          args = [probe_threshold |-> threshold, drop_parts |-> parts,
                  languages |-> languages]
    /\ \E corpus \in Corpora :
          dd = [corpus |-> corpus, pc |-> "depth_predict", member |-> 1,
                part_to_drop |-> 0, sentence |-> 0, results |-> <<>>,
                reads |-> {}]
    /\ network = NoNetwork
    /\ gs = NoGates
    /\ ds = NoDims
    /\ pr = NoPredict
    /\ ut = NoTree
    /\ dt = NoTree
    /\ uc = NoCompute
    /\ cr = NoCorrelation
    /\ rd = NoReader

\* DependencyDepthReporter.compute, one sentence of a pass of predict for
\* 'dep_depth': the depth probe's prediction for the sentence is stored
\* under the sentence's corpus index
DepthsStore ==
    /\ dd.pc = "depth_predict"
    /\ dd.sentence < Len(dd.corpus)
    /\ LET lang == Members(args.languages)[dd.member]
           conll_idx == dd.sentence + 1
           sent_gold == dd.corpus[conll_idx]
       IN  \E sent_predicted \in DepthVectors[Len(sent_gold)] :
              dd' = [dd EXCEPT !.sentence = conll_idx,
                               !.results = StoreDepths(dd.results, <<lang, conll_idx>>,
                                                       sent_predicted, sent_gold,
                                                       dd.part_to_drop)]
    /\ UNCHANGED <<args, idleDepths>>

\* the pipeline is exhausted: predict goes to its next pass, or ends and
\* compute goes to the next member
DepthsNextPart ==
    /\ dd.pc = "depth_predict"
    /\ dd.sentence = Len(dd.corpus)
    /\ dd.part_to_drop + 1 < validation_steps
    /\ dd' = [dd EXCEPT !.part_to_drop = dd.part_to_drop + 1, !.sentence = 0]
    /\ UNCHANGED <<args, idleDepths>>

DepthsNextMember ==
    /\ dd.pc = "depth_predict"
    /\ dd.sentence = Len(dd.corpus)
    /\ dd.part_to_drop + 1 = validation_steps
    /\ dd.member < Len(Members(args.languages))
    /\ dd' = [dd EXCEPT !.member = dd.member + 1, !.part_to_drop = 0,
                        !.sentence = 0]
    /\ UNCHANGED <<args, idleDepths>>

\* compute returns results; report.py builds the UASReporter with them and
\* calls its compute
DepthsReturn ==
    /\ dd.pc = "depth_predict"
    /\ dd.sentence = Len(dd.corpus)
    /\ dd.part_to_drop + 1 = validation_steps
    /\ dd.member = Len(Members(args.languages))
    /\ dd' = [dd EXCEPT !.pc = "uas_predict", !.member = 1, !.part_to_drop = 0,
                        !.sentence = 0]
    /\ UNCHANGED <<args, idleDepths>>

\* UASReporter.compute, one sentence of a pass of predict for
\* 'dep_distance': directed_tree reads self.depths[lang][conll_idx]
UasSentence ==
    /\ dd.pc = "uas_predict"
    /\ dd.sentence < Len(dd.corpus)
    /\ LET lang == Members(args.languages)[dd.member]
           conll_idx == dd.sentence + 1
           entry == dd.results[<<lang, conll_idx>>]
       IN  dd' = [dd EXCEPT !.sentence = conll_idx,
                            !.reads = dd.reads \cup
                                {[lang |-> lang, conll_idx |-> conll_idx,
                                  part_to_drop |-> dd.part_to_drop,
                                  predicted_depths |-> entry.predicted,
                                  gold_depths |-> entry.gold,
                                  written_in |-> entry.part]}]
    /\ UNCHANGED <<args, idleDepths>>

UasNextPart ==
    /\ dd.pc = "uas_predict"
    /\ dd.sentence = Len(dd.corpus)
    /\ dd.part_to_drop + 1 < validation_steps
    /\ dd' = [dd EXCEPT !.part_to_drop = dd.part_to_drop + 1, !.sentence = 0]
    /\ UNCHANGED <<args, idleDepths>>

UasNextMember ==
    /\ dd.pc = "uas_predict"
    /\ dd.sentence = Len(dd.corpus)
    /\ dd.part_to_drop + 1 = validation_steps
    /\ dd.member < Len(Members(args.languages))
    /\ dd' = [dd EXCEPT !.member = dd.member + 1, !.part_to_drop = 0,
                        !.sentence = 0]
    /\ UNCHANGED <<args, idleDepths>>

UasReturn ==
    /\ dd.pc = "uas_predict"
    /\ dd.sentence = Len(dd.corpus)
    /\ dd.part_to_drop + 1 = validation_steps
    /\ dd.member = Len(Members(args.languages))
    /\ dd' = [dd EXCEPT !.pc = "computed"]
    /\ UNCHANGED <<args, idleDepths>>

NextDepths ==
    \/ DepthsStore
    \/ DepthsNextPart
    \/ DepthsNextMember
    \/ DepthsReturn
    \/ UasSentence
    \/ UasNextPart
    \/ UasNextMember
    \/ UasReturn

SpecDepths == InitDepths /\ [][NextDepths]_vars

\* C19: with drop_parts = K > 1, when DependencyDepthReporter.compute has
\* returned, the entry of every corpus index was written K times and is
\* the one of the last pass (part K - 1); and in each of its K distance
\* passes the directed UASReporter reads, for a sentence, that same entry.
C19_DepthsOfLastPass ==
    (args.drop_parts > 1 /\ dd.pc \in {"uas_predict", "computed"}) =>
        /\ \A key \in DOMAIN dd.results :
              /\ dd.results[key].part = args.drop_parts - 1
              /\ dd.results[key].writes = args.drop_parts
        /\ \A r \in dd.reads :
              /\ r.written_in = args.drop_parts - 1
              /\ r.predicted_depths = dd.results[<<r.lang, r.conll_idx>>].predicted
              /\ r.gold_depths = dd.results[<<r.lang, r.conll_idx>>].gold
        /\ dd.pc = "computed" =>
              \A lang \in {"en", "de"}, i \in 1..Len(dd.corpus),
                 p \in 0..(args.drop_parts - 1) :
                 (\E m \in 1..Len(Members(args.languages)) :
                     Members(args.languages)[m] = lang) =>
                        \E r \in dd.reads :
                           r.lang = lang /\ r.conll_idx = i /\ r.part_to_drop = p

\* three parts, and the UAS reporter is through: the sentence was read in
\* the passes that drop part 0, 1 and 2, each time with the depths written
\* in pass 2
C19_Witness ==
    /\ dd.pc = "computed"
    /\ args.drop_parts = 3
    /\ args.languages = <<EN>>
    /\ Len(dd.corpus) = 1
    /\ dd.results[<<"en", 1>>].part = 2
    /\ {r.part_to_drop : r \in dd.reads} = {0, 1, 2}
    /\ {r.written_in : r \in dd.reads} = {2}

=========================================================================
